---------------------------- MODULE Spec2Model ----------------------------
(***************************************************************************)
(* Model of registry/consul/service_discovery.go: the consul service       *)
(* discovery adapter (consulServiceDiscovery), its instance-key ->          *)
(* stop-channel map csd.ttl, the TTL heartbeat goroutines started by       *)
(* registerTtl, and the consul agent seen as a set of registered service   *)
(* ids whose calls may succeed or fail.                                    *)
(***************************************************************************)
EXTENDS Integers, FiniteSets, Sequences, TLC

\* ------------------------------------------------------------------ bounds

\* Number of stop channels (= heartbeat goroutines) registerTtl may create.
MaxTasks == 2

\* The values buildID can take: instances with the same (id, serviceName,
\* host, port) have the same id, so an instance is modelled by its id.
Keys == {"k1", "k2"}

\* The goroutines that call the adapter's methods.
Callers == {"c1", "c2"}

\* The one caller of the sequential specification.
SeqCallers == {"c1"}

Chans == 1..MaxTasks

\* ------------------------------------------------------------------- state

VARIABLES
    consulClient,  \* csd.consulClient: "client" after Init, "nil" after Destroy
    ttl,           \* csd.ttl: function from a subset of Keys to Chans
    ttlNil,        \* TRUE when csd.ttl is the nil map (after Destroy line 138)
    closed,        \* the stop channels that have been closed
    taskPc,        \* per stop channel, its goroutine: "none" (not created),
                   \* "select" (at the select of line 162), "pass" (timer
                   \* case taken, PassTTL being called), "stopped" (returned)
    checkID,       \* per stop channel, the instance key its goroutine passes
    backend,       \* service ids registered in the consul agent
    pc,            \* per caller, the statement it is at
    inst,          \* per caller, buildID of the call's instance ("-" if none)
    stopChanel,    \* per caller, Unregister's local stopChanel (0 if none)
    swept,         \* per caller, the keys Destroy's range has produced
    panic,         \* "none", or the run-time panic that ended the process
    last,          \* the last call that returned: [op, key, err, chan]
    pair,          \* the stop channel made by a Register that returned nil and
                   \* was followed at once by an Unregister of the same
                   \* instance that returned nil (0 if none)
    everReg,       \* the keys a ServiceRegister ever succeeded for
    failedPass     \* the stop channel whose goroutine's PassTTL failed last,
                   \* until that goroutine's PassTTL succeeds (0 if none)

\* The package-level state of newConsulServiceDiscovery.
VARIABLES
    instanceMap,   \* the package variable instanceMap: configuration name ->
                   \* adapter
    initLock,      \* the package variable initLock: "free" or its holder
    fpc,           \* per caller of newConsulServiceDiscovery: "idle", "lock"
                   \* (at initLock.Lock()), "locked" (holding initLock)
    fname,         \* per caller, the name argument ("-" if none)
    made,          \* the adapters constructed at lines 89-93, in order: the
                   \* adapter numbered a was constructed for name made[a]
    fret           \* per caller, what its last call returned:
                   \* [name, adapter (0 for nil), err]

\* The read side: the backend's health listing and the arguments and result
\* of a query method.
VARIABLES
    entries,       \* the statuses of the service entries the backend lists for
                   \* service "s1", in the backend's order
    serviceName,   \* the serviceName argument
    offset,        \* the offset argument
    pageSize,      \* the pageSize / requestedSize argument
    healthy,       \* the healthy argument
    page           \* the last query: [op, failed, services, instances, pager,
                   \* pagers]; failed is the set of listing calls that
                   \* returned an error during the query

\* The write side's translation of an instance and its timing.
VARIABLES
    instance,          \* the ServiceInstance handed to Register
    checkPassInterval, \* csd.checkPassInterval, in milliseconds
    registration,      \* << >>, or <<r>> with r the AgentServiceRegistration
                       \* buildRegisterInstance returned
    decoded,           \* << >>, or <<d>> with d the DefaultServiceInstance
                       \* decoded from the backend's entry for r
    period             \* << >>, or <<p>> with p registerTtl's period in
                       \* milliseconds

\* The watch made by AddListener.
VARIABLES
    plan,          \* "none", "started" (the goroutine of line 349 exists),
                   \* "running" (RunWithConfig is watching), "failed"
                   \* (RunWithConfig returned an error)
    listenerName,  \* listener.ServiceName
    handlerErr,    \* AddListener's variable err as the handler left it
    events,        \* the ServiceInstancesChangedEvents dispatched, in order
    history        \* the kinds of the payloads delivered to plan.Handler, in
                   \* order: "bad" (not a []*consul.ServiceEntry) or "ok"

adapterVars == <<consulClient, ttl, ttlNil, closed, taskPc, checkID, backend,
                 pc, inst, stopChanel, swept, panic, last, pair, everReg,
                 failedPass>>

factoryVars == <<instanceMap, initLock, fpc, fname, made, fret>>

\* What the adapter's methods of the first part leave alone.
queryVars == <<entries, serviceName, offset, pageSize, healthy, page>>

\* What the adapter's methods of the first part leave alone.
codecVars == <<instance, checkPassInterval, registration, decoded, period>>

\* What the adapter's methods of the first part leave alone.
watchVars == <<plan, listenerName, handlerErr, events, history>>

\* What the adapter's methods of the first part leave alone.
auxVars == <<factoryVars, queryVars, codecVars, watchVars>>

vars == <<adapterVars, auxVars>>

callerVars == <<pc, inst, stopChanel, swept>>
taskVars == <<taskPc, checkID>>
ghostVars == <<last, pair, everReg, failedPass>>

NoCall == [op |-> "-", key |-> "-", err |-> FALSE, chan |-> 0]

\* newConsulServiceDiscovery followed by Init: an empty ttl map, a client.
AdapterInit ==
    /\ consulClient = "client"
    /\ ttl = [k \in {} |-> 0]
    /\ ttlNil = FALSE
    /\ closed = {}
    /\ taskPc = [t \in Chans |-> "none"]
    /\ checkID = [t \in Chans |-> "-"]
    /\ backend = {}
    /\ pc = [c \in Callers |-> "idle"]
    /\ inst = [c \in Callers |-> "-"]
    /\ stopChanel = [c \in Callers |-> 0]
    /\ swept = [c \in Callers |-> {}]
    /\ panic = "none"
    /\ last = NoCall
    /\ pair = 0
    /\ everReg = {}
    /\ failedPass = 0

\* ----------------------------------------------------------------- helpers

Alive == panic = "none"

\* make(chan struct{}): the next unused channel.
FreeChans == {t \in Chans : taskPc[t] = "none"}
NewChan == CHOOSE t \in FreeChans : \A u \in FreeChans : t <= u

\* Registers that passed ServiceRegister and have not yet made their channel.
PendingRegisters == {c \in Callers : pc[c] \in {"registerTtl", "ttl_insert"}}

\* A caller is inside statements that read or write csd.ttl.
InMap(c) == pc[c] \in {"ttl_insert", "unreg_close", "unreg_delete",
                       "destroy_range", "destroy_reset"}

\* m with key k removed: delete(m, k).
MapDelete(m, k) == [x \in (DOMAIN m) \ {k} |-> m[x]]

\* m with m[k] = v: an insert or an overwrite.
MapPut(m, k, v) == [x \in (DOMAIN m) \cup {k} |-> IF x = k THEN v ELSE m[x]]

\* A method returns: the caller is idle again and the call is recorded.
Return(c, op, k, err, ch) ==
    /\ pc' = [pc EXCEPT ![c] = "idle"]
    /\ inst' = [inst EXCEPT ![c] = "-"]
    /\ stopChanel' = [stopChanel EXCEPT ![c] = 0]
    /\ swept' = [swept EXCEPT ![c] = {}]
    /\ last' = [op |-> op, key |-> k, err |-> err, chan |-> ch]

\* A run-time panic: the process ends, nothing else changes.
Panic(why) ==
    /\ panic' = why
    /\ UNCHANGED <<consulClient, ttl, ttlNil, closed, taskPc, checkID, backend,
                   pc, inst, stopChanel, swept, last, pair, everReg,
                   failedPass>>

\* ---------------------------------------------------------------- Register

\* RegisterCall, were the stop channel put in csd.ttl and its goroutine
\* started before ServiceRegister's error is looked at.
RegisterCallTtlFirst(c, k) ==
    /\ Alive
    /\ pc[c] = "idle"
    /\ Cardinality(FreeChans) > Cardinality(PendingRegisters)
    /\ IF consulClient = "nil"
       THEN Panic("nil client")
       ELSE \E ok \in BOOLEAN :
              IF ok
              THEN /\ backend' = backend \cup {k}
                   /\ everReg' = everReg \cup {k}
                   /\ pc' = [pc EXCEPT ![c] = "registerTtl"]
                   /\ inst' = [inst EXCEPT ![c] = k]
                   /\ pair' = 0
                   /\ UNCHANGED <<consulClient, ttl, ttlNil, closed, taskVars,
                                  stopChanel, swept, panic, last,
                                  failedPass>>
              ELSE /\ ttl' = MapPut(ttl, k, NewChan)
                   /\ taskPc' = [taskPc EXCEPT ![NewChan] = "select"]
                   /\ checkID' = [checkID EXCEPT ![NewChan] = k]
                   /\ Return(c, "Register", k, TRUE, 0)
                   /\ pair' = 0
                   /\ UNCHANGED <<consulClient, ttlNil, closed, backend, panic,
                                  everReg, failedPass>>
    /\ UNCHANGED auxVars

\* Register lines 143-147: ServiceRegister; an error is returned at once.
\* (The guard on FreeChans keeps the number of stop channels within MaxTasks.)
RegisterCall(c, k) ==
    /\ Alive
    /\ pc[c] = "idle"
    /\ Cardinality(FreeChans) > Cardinality(PendingRegisters)
    /\ IF consulClient = "nil"
       THEN Panic("nil client")
       ELSE \E ok \in BOOLEAN :
              IF ok
              THEN /\ backend' = backend \cup {k}
                   /\ everReg' = everReg \cup {k}
                   /\ pc' = [pc EXCEPT ![c] = "registerTtl"]
                   /\ inst' = [inst EXCEPT ![c] = k]
                   /\ pair' = 0
                   /\ UNCHANGED <<consulClient, ttl, ttlNil, closed, taskVars,
                                  stopChanel, swept, panic, last,
                                  failedPass>>
              ELSE /\ Return(c, "Register", k, TRUE, 0)
                   /\ pair' = 0
                   /\ UNCHANGED <<consulClient, ttl, ttlNil, closed, taskVars,
                                  backend, panic, everReg, failedPass>>
    /\ UNCHANGED auxVars

\* registerTtl lines 153-155: the caller reaches the map assignment.
RegisterTtlEnter(c) ==
    /\ Alive
    /\ pc[c] = "registerTtl"
    /\ pc' = [pc EXCEPT ![c] = "ttl_insert"]
    /\ UNCHANGED <<consulClient, ttl, ttlNil, closed, taskVars, backend, inst,
                   stopChanel, swept, panic, ghostVars>>
    /\ UNCHANGED auxVars

\* A key inserted while another caller's Destroy ranges over the map may or
\* may not be produced by that range (Go's map iteration).
SweptAfterInsert(c, k) ==
    IF k \in DOMAIN ttl
    THEN {swept}
    ELSE {s \in [Callers -> SUBSET Keys] :
            \A d \in Callers :
               IF d # c /\ pc[d] = "destroy_range"
               THEN s[d] \in {swept[d] \cup {k}, swept[d] \ {k}}
               ELSE s[d] = swept[d]}

\* registerTtl lines 155-178: csd.ttl[buildID(instance)] = stopChan, the timer
\* and the goroutine are started, nil is returned.
RegisterTtlInsert(c) ==
    /\ Alive
    /\ pc[c] = "ttl_insert"
    /\ IF ttlNil
       THEN Panic("assignment to entry in nil map")
       ELSE /\ ttl' = MapPut(ttl, inst[c], NewChan)
            /\ taskPc' = [taskPc EXCEPT ![NewChan] = "select"]
            /\ checkID' = [checkID EXCEPT ![NewChan] = inst[c]]
            /\ \E s \in SweptAfterInsert(c, inst[c]) :
                 /\ pc' = [pc EXCEPT ![c] = "idle"]
                 /\ inst' = [inst EXCEPT ![c] = "-"]
                 /\ stopChanel' = [stopChanel EXCEPT ![c] = 0]
                 /\ swept' = [s EXCEPT ![c] = {}]
                         /\ last' = [op |-> "Register", key |-> inst[c], err |-> FALSE,
                        chan |-> NewChan]
            /\ UNCHANGED <<consulClient, ttlNil, closed, backend, panic, pair,
                           everReg, failedPass>>
    /\ UNCHANGED auxVars

\* ------------------------------------------------- the heartbeat goroutine

\* Lines 162-164: the timer of line 159 (reset at line 164) has put a tick
\* in timer.C and select takes case <-timer.C; the timer is reset. select
\* chooses at random among its ready cases, so this is possible whether or
\* not stopChan is closed.
TaskTick(t) ==
    /\ Alive
    /\ taskPc[t] = "select"
    /\ taskPc' = [taskPc EXCEPT ![t] = "pass"]
    /\ UNCHANGED <<consulClient, ttl, ttlNil, closed, checkID, backend,
                   callerVars, panic, ghostVars>>
    /\ UNCHANGED auxVars

\* PassTTL, were the goroutine to return when the call fails.
PassTTLStopsOnError(t) ==
    /\ Alive
    /\ taskPc[t] = "pass"
    /\ IF consulClient = "nil"
       THEN Panic("nil client")
       ELSE \E ok \in BOOLEAN :
              /\ taskPc' = [taskPc EXCEPT ![t] = IF ok THEN "select"
                                                 ELSE "stopped"]
              /\ failedPass' = (IF ~ok THEN t
                                ELSE IF failedPass = t THEN 0 ELSE failedPass)
              /\ UNCHANGED <<consulClient, ttl, ttlNil, closed, checkID,
                             backend, callerVars, panic, last, pair, everReg>>
    /\ UNCHANGED auxVars

\* Line 165-171: PassTTL succeeds or fails; either way the loop goes on.
PassTTL(t) ==
    /\ Alive
    /\ taskPc[t] = "pass"
    /\ IF consulClient = "nil"
       THEN Panic("nil client")
       ELSE \E ok \in BOOLEAN :
              /\ taskPc' = [taskPc EXCEPT ![t] = "select"]
              /\ failedPass' = (IF ~ok THEN t
                                ELSE IF failedPass = t THEN 0 ELSE failedPass)
              /\ UNCHANGED <<consulClient, ttl, ttlNil, closed, checkID,
                             backend, callerVars, panic, last, pair, everReg>>
    /\ UNCHANGED auxVars

\* select takes case <-stopChan (lines 172-174): the goroutine returns.
TaskStop(t) ==
    /\ Alive
    /\ taskPc[t] = "select"
    /\ t \in closed
    /\ taskPc' = [taskPc EXCEPT ![t] = "stopped"]
    /\ UNCHANGED <<consulClient, ttl, ttlNil, closed, checkID, backend,
                   callerVars, panic, ghostVars>>
    /\ UNCHANGED auxVars

\* ------------------------------------------------------------------ Update

\* Update lines 182-186: ServiceDeregister; its error is only logged.
UpdateDeregister(c, k) ==
    /\ Alive
    /\ pc[c] = "idle"
    /\ IF consulClient = "nil"
       THEN Panic("nil client")
       ELSE \E ok \in BOOLEAN :
              /\ backend' = (IF ok THEN backend \ {k} ELSE backend)
              /\ pc' = [pc EXCEPT ![c] = "upd_register"]
              /\ inst' = [inst EXCEPT ![c] = k]
              /\ pair' = 0
              /\ UNCHANGED <<consulClient, ttl, ttlNil, closed, taskVars,
                             stopChanel, swept, panic, last, everReg,
                             failedPass>>
    /\ UNCHANGED auxVars

\* Update line 187: ServiceRegister, whose result is Update's result.
UpdateRegister(c) ==
    /\ Alive
    /\ pc[c] = "upd_register"
    /\ IF consulClient = "nil"
       THEN Panic("nil client")
       ELSE \E ok \in BOOLEAN :
              /\ backend' = (IF ok THEN backend \cup {inst[c]} ELSE backend)
              /\ everReg' = (IF ok THEN everReg \cup {inst[c]} ELSE everReg)
              /\ Return(c, "Update", inst[c], ~ok, 0)
              /\ UNCHANGED <<consulClient, ttl, ttlNil, closed, taskVars,
                             panic, pair, failedPass>>
    /\ UNCHANGED auxVars

\* -------------------------------------------------------------- Unregister

\* The stop channel of the Register that returned nil just before this call,
\* when that Register was for the same instance (0 otherwise). Meant for
\* runs in which calls do not overlap (SeqSpec).
PairOf(k) ==
    IF last.op = "Register" /\ last.key = k /\ ~last.err THEN last.chan ELSE 0

\* UnregisterCall, were the stop channel closed and removed before
\* ServiceDeregister's error is returned.
UnregisterCallStopsFirst(c, k) ==
    /\ Alive
    /\ pc[c] = "idle"
    /\ IF consulClient = "nil"
       THEN Panic("nil client")
       ELSE \E ok \in BOOLEAN :
              IF ok
              THEN /\ backend' = backend \ {k}
                   /\ pc' = [pc EXCEPT ![c] = "unreg_lookup"]
                   /\ inst' = [inst EXCEPT ![c] = k]
                   /\ pair' = 0
                   /\ UNCHANGED <<consulClient, ttl, ttlNil, closed, taskVars,
                                  stopChanel, swept, panic, last,
                                  everReg, failedPass>>
              ELSE /\ closed' = (IF k \in DOMAIN ttl
                                 THEN closed \cup {ttl[k]} ELSE closed)
                   /\ ttl' = MapDelete(ttl, k)
                   /\ Return(c, "Unregister", k, TRUE, 0)
                   /\ pair' = 0
                   /\ UNCHANGED <<consulClient, ttlNil, taskVars, backend,
                                  panic, everReg, failedPass>>
    /\ UNCHANGED auxVars

\* Unregister lines 191-195: ServiceDeregister; an error is returned at once.
UnregisterCall(c, k) ==
    /\ Alive
    /\ pc[c] = "idle"
    /\ IF consulClient = "nil"
       THEN Panic("nil client")
       ELSE \E ok \in BOOLEAN :
              IF ok
              THEN /\ backend' = backend \ {k}
                   /\ pc' = [pc EXCEPT ![c] = "unreg_lookup"]
                   /\ inst' = [inst EXCEPT ![c] = k]
                   /\ pair' = 0
                   /\ UNCHANGED <<consulClient, ttl, ttlNil, closed, taskVars,
                                  stopChanel, swept, panic, last,
                                  everReg, failedPass>>
              ELSE /\ Return(c, "Unregister", k, TRUE, 0)
                   /\ pair' = 0
                   /\ UNCHANGED <<consulClient, ttl, ttlNil, closed, taskVars,
                                  backend, panic, everReg, failedPass>>
    /\ UNCHANGED auxVars

\* UnregisterLookup, were a missing entry returned as an error.
UnregisterLookupMissIsError(c) ==
    /\ Alive
    /\ pc[c] = "unreg_lookup"
    /\ IF ~ttlNil /\ inst[c] \in DOMAIN ttl
       THEN /\ stopChanel' = [stopChanel EXCEPT ![c] = ttl[inst[c]]]
            /\ pc' = [pc EXCEPT ![c] = "unreg_close"]
            /\ UNCHANGED <<inst, swept, ghostVars>>
       ELSE /\ Return(c, "Unregister", inst[c], TRUE, 0)
            /\ pair' = 0
            /\ UNCHANGED <<everReg, failedPass>>
    /\ UNCHANGED <<consulClient, ttl, ttlNil, closed, taskVars, backend, panic>>
    /\ UNCHANGED auxVars

\* Unregister lines 196-198: stopChanel, ok := csd.ttl[id]; a missing entry
\* (or a nil map) is a warning and nil is returned.
UnregisterLookup(c) ==
    /\ Alive
    /\ pc[c] = "unreg_lookup"
    /\ IF ~ttlNil /\ inst[c] \in DOMAIN ttl
       THEN /\ stopChanel' = [stopChanel EXCEPT ![c] = ttl[inst[c]]]
            /\ pc' = [pc EXCEPT ![c] = "unreg_close"]
            /\ UNCHANGED <<inst, swept, ghostVars>>
       ELSE /\ Return(c, "Unregister", inst[c], FALSE, 0)
            /\ pair' = PairOf(inst[c])
            /\ UNCHANGED <<everReg, failedPass>>
    /\ UNCHANGED <<consulClient, ttl, ttlNil, closed, taskVars, backend, panic>>
    /\ UNCHANGED auxVars

\* Unregister line 200: close(stopChanel); closing a closed channel panics.
UnregisterClose(c) ==
    /\ Alive
    /\ pc[c] = "unreg_close"
    /\ IF stopChanel[c] \in closed
       THEN Panic("close of closed channel")
       ELSE /\ closed' = closed \cup {stopChanel[c]}
            /\ pc' = [pc EXCEPT ![c] = "unreg_delete"]
            /\ UNCHANGED <<consulClient, ttl, ttlNil, taskVars, backend, inst,
                           stopChanel, swept, panic, ghostVars>>
    /\ UNCHANGED auxVars

\* Unregister lines 201-203: delete(csd.ttl, id) (nothing on a nil map),
\* return nil.
UnregisterDelete(c) ==
    /\ Alive
    /\ pc[c] = "unreg_delete"
    /\ ttl' = (IF ttlNil THEN ttl ELSE MapDelete(ttl, inst[c]))
    /\ Return(c, "Unregister", inst[c], FALSE, 0)
    /\ pair' = PairOf(inst[c])
    /\ UNCHANGED <<consulClient, ttlNil, closed, taskVars, backend, panic,
                   everReg, failedPass>>
    /\ UNCHANGED auxVars

\* ----------------------------------------------------------------- Destroy

\* Destroy line 134: csd.consulClient = nil.
DestroyCall(c) ==
    /\ Alive
    /\ pc[c] = "idle"
    /\ consulClient' = "nil"
    /\ pc' = [pc EXCEPT ![c] = "destroy_135"]
    /\ pair' = 0
    /\ UNCHANGED <<ttl, ttlNil, closed, taskVars, backend, inst, stopChanel,
                   swept, panic, last, everReg, failedPass>>
    /\ UNCHANGED auxVars

\* Destroy line 135: the range expression csd.ttl is evaluated once; a nil
\* map is ranged over zero times.
DestroyRange(c) ==
    /\ Alive
    /\ pc[c] = "destroy_135"
    /\ pc' = [pc EXCEPT ![c] = IF ttlNil THEN "destroy_reset"
                                ELSE "destroy_range"]
    /\ UNCHANGED <<consulClient, ttl, ttlNil, closed, taskVars, backend, inst,
                   stopChanel, swept, panic, ghostVars>>
    /\ UNCHANGED auxVars

\* Destroy lines 135-137: one iteration, close(t); closing a closed channel
\* panics.
DestroyClose(c) ==
    /\ Alive
    /\ pc[c] = "destroy_range"
    /\ \E k \in (DOMAIN ttl) \ swept[c] :
         IF ttl[k] \in closed
         THEN Panic("close of closed channel")
         ELSE /\ closed' = closed \cup {ttl[k]}
              /\ swept' = [swept EXCEPT ![c] = @ \cup {k}]
              /\ UNCHANGED <<consulClient, ttl, ttlNil, taskVars, backend, pc,
                             inst, stopChanel, panic, ghostVars>>
    /\ UNCHANGED auxVars

\* Destroy lines 138-139: the range is over, csd.ttl = nil, return nil. The
\* old map lives on only while another Destroy still ranges over it.
DestroyReset(c) ==
    /\ Alive
    /\ \/ pc[c] = "destroy_reset"
       \/ pc[c] = "destroy_range" /\ (DOMAIN ttl) \ swept[c] = {}
    /\ ttlNil' = TRUE
    /\ ttl' = (IF \E d \in Callers \ {c} : pc[d] = "destroy_range"
               THEN ttl ELSE [k \in {} |-> 0])
    /\ Return(c, "Destroy", "-", FALSE, 0)
    /\ UNCHANGED <<consulClient, closed, taskVars, backend, panic, pair,
                   everReg, failedPass>>
    /\ UNCHANGED auxVars

\* ---------------------------------------------------- unsynchronised access

\* A caller is executing a Go map operation on csd.ttl.
MapWrite(c) == pc[c] \in {"ttl_insert", "unreg_delete"}
MapOp(c) == MapWrite(c) \/ pc[c] = "destroy_range"

\* csd.ttl has no lock: when a map write overlaps another map operation the
\* Go runtime may end the process ("fatal error: concurrent map writes").
RaceFatal(c) ==
    /\ Alive
    /\ MapWrite(c)
    /\ \E d \in Callers \ {c} : MapOp(d)
    /\ Panic("concurrent map access")
    /\ UNCHANGED auxVars

\* ------------------------------------------- newConsulServiceDiscovery

\* Number of adapters the factory may construct.
MaxAdapters == 3

\* Configuration names: those with a service-discovery entry that has a
\* RemoteRef with a remote config, one whose RemoteRef has no remote config,
\* and one with no service-discovery entry.
ValidNames == {"n1", "n2"}
NoRemoteNames == {"noremote"}
NoConfigNames == {"noconf"}
Names == ValidNames \cup NoRemoteNames \cup NoConfigNames

NoReturn == [name |-> "-", adapter |-> 0, err |-> FALSE]

\* The package variables as declared: an empty instanceMap, a free initLock.
FactoryInit ==
    /\ instanceMap = [n \in {} |-> 0]
    /\ initLock = "free"
    /\ fpc = [c \in Callers |-> "idle"]
    /\ fname = [c \in Callers |-> "-"]
    /\ made = << >>
    /\ fret = [c \in Callers |-> NoReturn]

\* Callers that may still construct an adapter.
PendingNew == {c \in Callers : fpc[c] # "idle"}

FactoryReturn(c, n, a, e) ==
    /\ fpc' = [fpc EXCEPT ![c] = "idle"]
    /\ fname' = [fname EXCEPT ![c] = "-"]
    /\ fret' = [fret EXCEPT ![c] = [name |-> n, adapter |-> a, err |-> e]]

\* newConsulServiceDiscovery(n) up to initLock.Lock(): the first read of
\* instanceMap, taken without the lock.
NewCall(c, n) ==
    /\ fpc[c] = "idle"
    /\ Len(made) + Cardinality(PendingNew) < MaxAdapters
    /\ IF n \in DOMAIN instanceMap
       THEN /\ FactoryReturn(c, n, instanceMap[n], FALSE)
            /\ UNCHANGED <<instanceMap, initLock, made>>
       ELSE /\ fpc' = [fpc EXCEPT ![c] = "lock"]
            /\ fname' = [fname EXCEPT ![c] = n]
            /\ UNCHANGED <<instanceMap, initLock, made, fret>>
    /\ UNCHANGED <<adapterVars, queryVars, codecVars, watchVars>>

\* initLock.Lock() returns.
NewLock(c) ==
    /\ fpc[c] = "lock"
    /\ initLock = "free"
    /\ initLock' = c
    /\ fpc' = [fpc EXCEPT ![c] = "locked"]
    /\ UNCHANGED <<instanceMap, fname, made, fret>>
    /\ UNCHANGED <<adapterVars, queryVars, codecVars, watchVars>>

\* The rest of the function, under initLock: the second read of instanceMap,
\* the two configuration lookups, the construction of the adapter, and the
\* deferred Unlock.  No statement stores the new adapter in instanceMap.
NewConstruct(c) ==
    /\ fpc[c] = "locked"
    /\ initLock' = "free"
    /\ IF fname[c] \in DOMAIN instanceMap
       THEN /\ FactoryReturn(c, fname[c], instanceMap[fname[c]], FALSE)
            /\ UNCHANGED made
       ELSE IF fname[c] \in NoConfigNames \cup NoRemoteNames
       THEN /\ FactoryReturn(c, fname[c], 0, TRUE)
            /\ UNCHANGED made
       ELSE /\ made' = Append(made, fname[c])
            /\ FactoryReturn(c, fname[c], Len(made) + 1, FALSE)
    /\ UNCHANGED instanceMap
    /\ UNCHANGED <<adapterVars, queryVars, codecVars, watchVars>>

\* ------------------------------------------------------- the read side

\* Length of the backend's listing and size of a page.
MaxLen == 5
MaxPageSize == 3

ServiceNames == {"s1", "s2"}
Statuses == {"passing", "critical"}

\* Go strings that are concatenated are sequences of one-character strings.
Digits == <<"0", "1", "2", "3", "4", "5", "6", "7", "8", "9">>

\* The decimal digits of n >= 0 (fmt's %d).
RECURSIVE ItoA(_)
ItoA(n) ==
    IF n < Len(Digits)
    THEN <<Digits[n + 1]>>
    ELSE ItoA(n \div Len(Digits)) \o <<Digits[(n % Len(Digits)) + 1]>>

\* strconv.FormatBool and strconv.ParseBool (an unparsable string gives
\* false and an error, which the callers drop).
FormatBool(b) == IF b THEN "true" ELSE "false"
ParseBool(str) == str \in {"1", "t", "T", "TRUE", "true", "True"}

\* m[k] of a Go map of strings: "" when k is absent.
MapGet(m, k) == IF k \in DOMAIN m THEN m[k] ELSE ""

\* The i-th service entry the backend lists for service s, with aggregated
\* check status st.
EntryAt(s, i, st) ==
    [ID |-> ItoA(i), Service |-> s, Address |-> <<"h">>, Port |-> i,
     Meta |-> [k \in {"enable"} |-> "true"], Status |-> st]

\* What Health().Service(name, ...) lists: service "s1" has the entries,
\* any other service has none.
Listing(name) ==
    IF name = "s1"
    THEN [i \in 1..Len(entries) |-> EntryAt(name, i, entries[i])]
    ELSE << >>

\* The translation of one consul.ServiceEntry into a DefaultServiceInstance,
\* written out in GetInstances and again in the watch handler.
Decode(e) ==
    [Id |-> e.ID, ServiceName |-> e.Service, Host |-> e.Address,
     Port |-> e.Port, Enable |-> ParseBool(MapGet(e.Meta, "enable")),
     Healthy |-> (e.Status = "passing"),
     Metadata |-> MapDelete(e.Meta, "enable")]

DecodeAll(es) == [i \in 1..Len(es) |-> Decode(es[i])]

\* GetInstances that ignores the listing call's error.
GetInstancesIgnoresError(name, err) == DecodeAll(Listing(name))

\* GetInstances(name) when the listing call fails (err) or not.
GetInstances(name, err) == IF err THEN << >> ELSE DecodeAll(Listing(name))

\* The loop of GetInstancesByPage from index i (Go indices start at 0).
RECURSIVE PageLoop(_, _, _, _)
PageLoop(all, i, lim, res) ==
    IF i < Len(all) /\ i < lim
    THEN IF i < 0
         THEN [items |-> res, panic |-> "index out of range"]
         ELSE PageLoop(all, i + 1, lim, Append(res, all[i + 1]))
    ELSE [items |-> res, panic |-> "none"]

\* The loop of GetHealthyInstancesByPage from index i with count matches.
RECURSIVE HealthyLoop(_, _, _, _, _, _)
HealthyLoop(all, i, count, size, flag, res) ==
    IF i < Len(all) /\ count < size
    THEN IF i < 0
         THEN [items |-> res, panic |-> "index out of range"]
         ELSE IF all[i + 1].Healthy = flag
         THEN HealthyLoop(all, i + 1, count + 1, size, flag,
                          Append(res, all[i + 1]))
         ELSE HealthyLoop(all, i + 1, count, size, flag, res)
    ELSE [items |-> res, panic |-> "none"]

\* make([]interface{}, 0, size) panics when size is negative.
MakePanics(size) == size < 0

\* GetInstancesByPage with the loop bound i < pageSize.
ByPageLimitIsSize(all, off, size) ==
    IF MakePanics(size)
    THEN [items |-> << >>, total |-> 0, panic |-> "makeslice: cap out of range"]
    ELSE LET r == PageLoop(all, off, size, << >>)
         IN  [items |-> r.items, total |-> Len(all), panic |-> r.panic]

\* GetInstancesByPage over the list all: the pager, or the panic.
ByPage(all, off, size) ==
    IF MakePanics(size)
    THEN [items |-> << >>, total |-> 0, panic |-> "makeslice: cap out of range"]
    ELSE LET r == PageLoop(all, off, off + size, << >>)
         IN  [items |-> r.items, total |-> Len(all), panic |-> r.panic]

\* GetHealthyInstancesByPage that starts its scan at index 0 and skips the
\* first off matches.
HealthyByPageSkipsMatches(all, off, size, flag) ==
    IF MakePanics(size)
    THEN [items |-> << >>, total |-> 0, panic |-> "makeslice: cap out of range"]
    ELSE LET r == HealthyLoop(all, 0, 0, off + size, flag, << >>)
         IN  [items |-> IF Len(r.items) > off /\ off >= 0
                        THEN SubSeq(r.items, off + 1, Len(r.items))
                        ELSE << >>,
              total |-> Len(all), panic |-> r.panic]

\* GetHealthyInstancesByPage over the list all: the pager, or the panic.
HealthyByPage(all, off, size, flag) ==
    IF MakePanics(size)
    THEN [items |-> << >>, total |-> 0, panic |-> "makeslice: cap out of range"]
    ELSE LET r == HealthyLoop(all, off, 0, size, flag, << >>)
         IN  [items |-> r.items, total |-> Len(all), panic |-> r.panic]

NoPager == [items |-> << >>, total |-> 0]
NoQuery == [op |-> "-", failed |-> {}, services |-> {}, instances |-> << >>,
            pager |-> NoPager, pagers |-> [n \in {} |-> NoPager]]

\* A query method returns q, or panics with why.
QueryReturn(q, why) ==
    /\ page' = q
    /\ panic' = why
    /\ UNCHANGED <<consulClient, ttl, ttlNil, closed, taskVars, backend,
                   callerVars, last, pair, everReg, failedPass>>
    /\ UNCHANGED <<entries, serviceName, offset, pageSize, healthy>>
    /\ UNCHANGED <<factoryVars, codecVars, watchVars>>

\* GetServices: the names in the catalog, or the empty set when
\* Catalog().Services fails.
GetServicesCall ==
    /\ Alive
    /\ consulClient = "client"
    /\ \E err \in BOOLEAN :
          QueryReturn([NoQuery EXCEPT !.op = "GetServices",
                          !.failed = IF err THEN {"catalog"} ELSE {},
                          !.services = IF err THEN {} ELSE ServiceNames],
                      "none")

\* GetInstances(serviceName).
GetInstancesCall ==
    /\ Alive
    /\ consulClient = "client"
    /\ \E err \in BOOLEAN :
          QueryReturn([NoQuery EXCEPT !.op = "GetInstances",
                          !.failed = IF err THEN {serviceName} ELSE {},
                          !.instances = GetInstances(serviceName, err)],
                      "none")

\* GetInstancesByPage(serviceName, offset, pageSize).
GetInstancesByPageCall ==
    /\ Alive
    /\ consulClient = "client"
    /\ \E err \in BOOLEAN :
          LET r == ByPage(GetInstances(serviceName, err), offset, pageSize)
          IN  QueryReturn([NoQuery EXCEPT !.op = "GetInstancesByPage",
                              !.failed = IF err THEN {serviceName} ELSE {},
                              !.pager = [items |-> r.items, total |-> r.total]],
                          r.panic)

\* GetHealthyInstancesByPage(serviceName, offset, pageSize, healthy).
GetHealthyInstancesByPageCall ==
    /\ Alive
    /\ consulClient = "client"
    /\ \E err \in BOOLEAN :
          LET r == HealthyByPage(GetInstances(serviceName, err), offset,
                                 pageSize, healthy)
          IN  QueryReturn([NoQuery EXCEPT !.op = "GetHealthyInstancesByPage",
                              !.failed = IF err THEN {serviceName} ELSE {},
                              !.pager = [items |-> r.items, total |-> r.total]],
                          r.panic)

\* GetRequestInstances(names, offset, pageSize): one GetInstancesByPage per
\* name, each with its own listing call; a panic of one of them ends the call.
GetRequestInstancesCall ==
    /\ Alive
    /\ consulClient = "client"
    /\ \E names \in SUBSET ServiceNames, bad \in SUBSET ServiceNames :
          /\ bad \subseteq names
          /\ LET r == [n \in names |->
                          ByPage(GetInstances(n, n \in bad), offset, pageSize)]
                 panics == {r[n].panic : n \in names} \ {"none"}
             IN  QueryReturn(
                    [NoQuery EXCEPT !.op = "GetRequestInstances",
                        !.failed = bad,
                        !.pagers = [n \in names |->
                                       [items |-> r[n].items,
                                        total |-> r[n].total]]],
                    IF panics = {} THEN "none" ELSE CHOOSE w \in panics : TRUE)

\* ------------------------------------------------------ the write side

\* Milliseconds in a second, and the divisor of the heartbeat period.
MsPerSecond == 1000
PeriodDivisor == 8

\* The largest check-pass interval, in milliseconds.
MaxInterval == 2100

\* The Go string of the one character a.
Str(a) == <<a>>

\* buildID: fmt.Sprintf("id:%s,serviceName:%s,host:%s,port:%d", ...).
buildID(ins) ==
    <<"i", "d", ":">> \o ins.Id
      \o <<",", "s", "e", "r", "v", "i", "c", "e", "N", "a", "m", "e", ":">>
      \o ins.ServiceName
      \o <<",", "h", "o", "s", "t", ":">> \o ins.Host
      \o <<",", "p", "o", "r", "t", ":">> \o ItoA(ins.Port)

\* instance.GetMetadata(): the instance's map, the empty map when it is nil
\* (reading a nil map gives no entries).
GetMetadata(ins) == IF ins.MetaNil THEN [k \in {} |-> ""] ELSE ins.Metadata

\* buildCheck: the TTL check of the registration.
buildCheck(ins, interval) ==
    [CheckID |-> buildID(ins),
     TTL |-> ItoA(interval \div MsPerSecond) \o Str("s"),
     DeregisterCriticalServiceAfter |->
        IF MapGet(GetMetadata(ins), "deregisterAfter") = ""
        THEN "default"
        ELSE MapGet(GetMetadata(ins), "deregisterAfter")]

\* The metadata map after metadata[enable] = FormatBool(IsEnable()).
MetaWithEnable(ins) ==
    MapPut(GetMetadata(ins), "enable", FormatBool(ins.Enable))

\* buildRegisterInstance: the AgentServiceRegistration of an instance.
buildRegisterInstance(ins, interval) ==
    [ID |-> buildID(ins), Name |-> ins.ServiceName, Port |-> ins.Port,
     Address |-> ins.Host, Meta |-> MetaWithEnable(ins),
     Check |-> buildCheck(ins, interval)]

\* The entry the backend lists for a registered service: the registration's
\* fields and the aggregated status of its check.
EntryOf(r, st) ==
    [ID |-> r.ID, Service |-> r.Name, Address |-> r.Address, Port |-> r.Port,
     Meta |-> r.Meta, Status |-> st]

\* Register up to ServiceRegister: the instance is encoded; a metadata map
\* that is not nil is written in place.
Encode ==
    /\ Alive
    /\ registration = << >>
    /\ registration' = <<buildRegisterInstance(instance, checkPassInterval)>>
    /\ instance' = IF instance.MetaNil THEN instance
                   ELSE [instance EXCEPT !.Metadata = MetaWithEnable(instance)]
    /\ UNCHANGED <<checkPassInterval, decoded, period>>
    /\ UNCHANGED <<adapterVars, factoryVars, queryVars, watchVars>>

\* registerTtl lines 158-159: the period of the heartbeat timer.
RegisterTtlPeriod ==
    /\ Alive
    /\ registration # << >>
    /\ period = << >>
    /\ period' = <<checkPassInterval \div PeriodDivisor>>
    /\ UNCHANGED <<instance, checkPassInterval, registration, decoded>>
    /\ UNCHANGED <<adapterVars, factoryVars, queryVars, watchVars>>

\* GetInstances or the watch handler decodes the backend's entry for the
\* registered service.
DecodeRegistered ==
    /\ Alive
    /\ registration # << >>
    /\ decoded = << >>
    /\ \E st \in Statuses :
          decoded' = <<Decode(EntryOf(registration[1], st))>>
    /\ UNCHANGED <<instance, checkPassInterval, registration, period>>
    /\ UNCHANGED <<adapterVars, factoryVars, queryVars, watchVars>>

\* --------------------------------------------------------------- the watch

\* Number of payloads the watch delivers, and length of a payload.
MaxDeliveries == 3
MaxEntries == 2

\* listener.ServiceName: a service, or the empty name, which watch.Parse
\* rejects.
ListenerNames == {"s1", ""}

\* The well-formed payloads: the entries of the watched service.
Payloads(name) ==
    {[i \in 1..Len(sts) |-> EntryAt(name, i, sts[i])] :
        sts \in UNION {[1..m -> Statuses] : m \in 0..MaxEntries}}

WatchIdle ==
    /\ plan = "none"
    /\ listenerName = ""
    /\ handlerErr = FALSE
    /\ events = << >>
    /\ history = << >>

\* AddListener: watch.Parse fails and the error is returned, or the handler
\* is installed and the goroutine of line 349 is started.
AddListener(name) ==
    /\ Alive
    /\ plan = "none"
    /\ listenerName' = name
    /\ plan' = IF name = "" THEN "none" ELSE "started"
    /\ UNCHANGED <<handlerErr, events, history>>
    /\ UNCHANGED <<adapterVars, factoryVars, queryVars, codecVars>>

\* The goroutine: plan.RunWithConfig starts watching, or returns an error.
RunWithConfig ==
    /\ Alive
    /\ plan = "started"
    /\ \E ok \in BOOLEAN : plan' = IF ok THEN "running" ELSE "failed"
    /\ UNCHANGED <<listenerName, handlerErr, events, history>>
    /\ UNCHANGED <<adapterVars, factoryVars, queryVars, codecVars>>

\* plan.Handler that gives up the watch on a payload of another type.
HandlerMalformedStopsWatch ==
    /\ Alive
    /\ plan = "running"
    /\ Len(history) < MaxDeliveries
    /\ handlerErr' = TRUE
    /\ plan' = "failed"
    /\ history' = Append(history, "bad")
    /\ UNCHANGED <<listenerName, events>>
    /\ UNCHANGED <<adapterVars, factoryVars, queryVars, codecVars>>

\* plan.Handler with a payload that is not a []*consul.ServiceEntry: err is
\* set and the handler returns.
HandlerMalformed ==
    /\ Alive
    /\ plan = "running"
    /\ Len(history) < MaxDeliveries
    /\ handlerErr' = TRUE
    /\ history' = Append(history, "bad")
    /\ UNCHANGED <<plan, listenerName, events>>
    /\ UNCHANGED <<adapterVars, factoryVars, queryVars, codecVars>>

\* plan.Handler with a []*consul.ServiceEntry: every entry is decoded and one
\* event is dispatched.
HandlerEntries(es) ==
    /\ Alive
    /\ plan = "running"
    /\ Len(history) < MaxDeliveries
    /\ events' = Append(events, [serviceName |-> listenerName,
                                 instances |-> DecodeAll(es)])
    /\ history' = Append(history, "ok")
    /\ UNCHANGED <<plan, listenerName, handlerErr>>
    /\ UNCHANGED <<adapterVars, factoryVars, queryVars, codecVars>>

\* ------------------------------------------------------ the specifications

\* No query was made; the backend lists nothing.
QueryIdle ==
    /\ entries = << >>
    /\ serviceName = "s1"
    /\ offset = 0
    /\ pageSize = 0
    /\ healthy = TRUE
    /\ page = NoQuery

\* The instances handed to Register.
Instances ==
    [Id : {<< >>, <<"a">>},
     ServiceName : {<<"s">>, <<"t">>},
     Host : {<<"h">>, <<"g">>},
     Port : {0, 80, 443},
     Enable : BOOLEAN,
     Healthy : BOOLEAN,
     MetaNil : {FALSE},
     Metadata : {[k \in {} |-> ""], [k \in {"zone"} |-> "z"],
                 [k \in {"enable"} |-> "T"]}]
      \cup
    [Id : {<< >>, <<"a">>},
     ServiceName : {<<"s">>, <<"t">>},
     Host : {<<"h">>, <<"g">>},
     Port : {0, 80, 443},
     Enable : BOOLEAN,
     Healthy : BOOLEAN,
     MetaNil : {TRUE},
     Metadata : {[k \in {} |-> ""]}]

AnInstance ==
    [Id |-> <<"a">>, ServiceName |-> <<"s">>, Host |-> <<"h">>, Port |-> 80,
     Enable |-> TRUE, Healthy |-> TRUE, MetaNil |-> TRUE,
     Metadata |-> [k \in {} |-> ""]]

\* Nothing was encoded; the interval is one second.
CodecIdle ==
    /\ instance = AnInstance
    /\ checkPassInterval = MsPerSecond
    /\ registration = << >>
    /\ decoded = << >>
    /\ period = << >>

\* The state after the package is loaded and one adapter is initialised.
Init ==
    /\ AdapterInit
    /\ FactoryInit
    /\ QueryIdle
    /\ CodecIdle
    /\ WatchIdle

\* A method may be called while others are running.
Next ==
    \/ \E c \in Callers, k \in Keys : RegisterCall(c, k)
    \/ \E c \in Callers, k \in Keys : UpdateDeregister(c, k)
    \/ \E c \in Callers, k \in Keys : UnregisterCall(c, k)
    \/ \E c \in Callers : DestroyCall(c)
    \/ \E c \in Callers : RegisterTtlEnter(c)
    \/ \E c \in Callers : RegisterTtlInsert(c)
    \/ \E c \in Callers : UpdateRegister(c)
    \/ \E c \in Callers : UnregisterLookup(c)
    \/ \E c \in Callers : UnregisterClose(c)
    \/ \E c \in Callers : UnregisterDelete(c)
    \/ \E c \in Callers : DestroyRange(c)
    \/ \E c \in Callers : DestroyClose(c)
    \/ \E c \in Callers : DestroyReset(c)
    \/ \E c \in Callers : RaceFatal(c)
    \/ \E t \in Chans : TaskTick(t)
    \/ \E t \in Chans : PassTTL(t)
    \/ \E t \in Chans : TaskStop(t)

Spec == Init /\ [][Next]_vars

\* No method is running.
Quiet == \A c \in Callers : pc[c] = "idle"

\* One caller: a method is called only after the previous call returned; the
\* heartbeat goroutines run at any time.
SeqNext ==
    \/ \E c \in SeqCallers, k \in Keys : Quiet /\ RegisterCall(c, k)
    \/ \E c \in SeqCallers, k \in Keys : Quiet /\ UpdateDeregister(c, k)
    \/ \E c \in SeqCallers, k \in Keys : Quiet /\ UnregisterCall(c, k)
    \/ \E c \in SeqCallers : Quiet /\ DestroyCall(c)
    \/ \E c \in Callers : RegisterTtlEnter(c)
    \/ \E c \in Callers : RegisterTtlInsert(c)
    \/ \E c \in Callers : UpdateRegister(c)
    \/ \E c \in Callers : UnregisterLookup(c)
    \/ \E c \in Callers : UnregisterClose(c)
    \/ \E c \in Callers : UnregisterDelete(c)
    \/ \E c \in Callers : DestroyRange(c)
    \/ \E c \in Callers : DestroyClose(c)
    \/ \E c \in Callers : DestroyReset(c)
    \/ \E t \in Chans : TaskTick(t)
    \/ \E t \in Chans : PassTTL(t)
    \/ \E t \in Chans : TaskStop(t)

SeqSpec == Init /\ [][SeqNext]_vars

\* The query methods.  Each makes its listing calls and computes its result
\* from them without reading or writing any field the other methods write.
QueryNext ==
    \/ GetServicesCall
    \/ GetInstancesCall
    \/ GetInstancesByPageCall
    \/ GetHealthyInstancesByPageCall
    \/ GetRequestInstancesCall

\* Sequences over S of length at most n.
SeqsUpTo(S, n) == UNION {[1..m -> S] : m \in 0..n}

\* The paging methods as functions of the listing and their arguments.
PageInit ==
    /\ AdapterInit
    /\ FactoryInit
    /\ entries \in SeqsUpTo(Statuses, MaxLen)
    /\ serviceName = "s1"
    /\ offset \in -1..MaxLen
    /\ pageSize \in -1..MaxPageSize
    /\ healthy \in BOOLEAN
    /\ page = NoQuery
    /\ CodecIdle
    /\ WatchIdle

PageNext ==
    \/ GetInstancesCall
    \/ GetInstancesByPageCall
    \/ GetHealthyInstancesByPageCall

PageSpec == PageInit /\ [][PageNext]_vars

\* Queries on an adapter that registers instances and runs their heartbeats.
QueryInit ==
    /\ AdapterInit
    /\ FactoryInit
    /\ entries = <<"passing", "critical">>
    /\ serviceName = "s1"
    /\ offset \in -1..0
    /\ pageSize = 1
    /\ healthy = TRUE
    /\ page = NoQuery
    /\ CodecIdle
    /\ WatchIdle

QueryAdapterNext ==
    \/ QueryNext
    \/ \E c \in SeqCallers, k \in Keys : Quiet /\ RegisterCall(c, k)
    \/ \E c \in SeqCallers : RegisterTtlEnter(c)
    \/ \E c \in SeqCallers : RegisterTtlInsert(c)
    \/ \E t \in Chans : TaskTick(t)
    \/ \E t \in Chans : PassTTL(t)

QuerySpec == QueryInit /\ [][QueryAdapterNext]_vars

\* An instance is encoded, stored by the backend and decoded.
CodecInit ==
    /\ AdapterInit
    /\ FactoryInit
    /\ QueryIdle
    /\ instance \in Instances
    /\ checkPassInterval = MsPerSecond
    /\ registration = << >>
    /\ decoded = << >>
    /\ period = << >>
    /\ WatchIdle

CodecNext ==
    \/ Encode
    \/ DecodeRegistered

CodecSpec == CodecInit /\ [][CodecNext]_vars

\* The timing of a registration as a function of the configured interval.
NumInit ==
    /\ AdapterInit
    /\ FactoryInit
    /\ QueryIdle
    /\ instance = AnInstance
    /\ checkPassInterval \in 1..MaxInterval
    /\ registration = << >>
    /\ decoded = << >>
    /\ period = << >>
    /\ WatchIdle

NumNext ==
    \/ Encode
    \/ RegisterTtlPeriod

NumSpec == NumInit /\ [][NumNext]_vars

\* One listener is added and its watch delivers payloads.
WatchNext ==
    \/ \E name \in ListenerNames : AddListener(name)
    \/ RunWithConfig
    \/ HandlerMalformed
    \/ \E es \in Payloads(listenerName) : HandlerEntries(es)

WatchSpec == Init /\ [][WatchNext]_vars

\* The factory called from two goroutines.
FactoryNext ==
    \/ \E c \in Callers, n \in Names : NewCall(c, n)
    \/ \E c \in Callers : NewLock(c)
    \/ \E c \in Callers : NewConstruct(c)

FactorySpec == Init /\ [][FactoryNext]_vars

\* ------------------------------------------------------------- the claims

\* The goroutine of stop channel t has been started and has not returned.
Running(t) == taskPc[t] \in {"select", "pass"}

\* The heartbeat goroutines of instance key k that are running and whose
\* stop channel has not been closed.
ActiveTasks(k) ==
    {t \in Chans : checkID[t] = k /\ Running(t) /\ t \notin closed}

\* C1: whenever no method is running, the instance keys with an active
\* heartbeat task are exactly the keys registered in the backend.
C1_HeartbeatsEqualRegistrations ==
    (Alive /\ Quiet) => {k \in Keys : ActiveTasks(k) # {}} = backend

\* C2: after a Register that returned nil followed at once by an Unregister
\* of the same instance that returned nil, the instance has no active
\* heartbeat task (the Register's stop channel is closed and out of the
\* map) and no backend record.
C2_RegisterUnregisterLeavesNothing ==
    pair # 0 =>
        /\ pair \in closed
        /\ last.key \notin DOMAIN ttl
        /\ last.key \notin backend
        /\ ActiveTasks(last.key) = {}

\* C3: the step of Register at which ServiceRegister fails returns an error,
\* creates no goroutine and leaves csd.ttl and the stop channels as they were.
C3_RegisterFailureStartsNoTask ==
    [][\A c \in Callers, k \in Keys :
          (RegisterCall(c, k) /\ pc'[c] = "idle" /\ panic' = "none") =>
             /\ last' = [op |-> "Register", key |-> k, err |-> TRUE, chan |-> 0]
             /\ UNCHANGED <<ttl, ttlNil, closed, taskPc, checkID>>]_vars

\* C3's case: a Register has just returned an error while the map holds
\* another registration, and the instance has no entry and no task.
C3_Witness ==
    /\ last.op = "Register" /\ last.err
    /\ last.key \notin DOMAIN ttl
    /\ \A t \in Chans : checkID[t] # last.key
    /\ DOMAIN ttl # {}

\* C4: the step of Unregister at which ServiceDeregister fails returns an
\* error and leaves csd.ttl, the stop channels and the goroutines as they
\* were; the instance's goroutine is still running with its stop channel
\* open, so its next steps are ticks and passes.
C4_UnregisterFailureKeepsHeartbeat ==
    [][\A c \in Callers, k \in Keys :
          (UnregisterCall(c, k) /\ pc'[c] = "idle" /\ panic' = "none") =>
             /\ last' = [op |-> "Unregister", key |-> k, err |-> TRUE,
                         chan |-> 0]
             /\ UNCHANGED <<ttl, ttlNil, closed, taskPc, checkID>>
             /\ k \in DOMAIN ttl =>
                   /\ taskPc'[ttl[k]] \in {"select", "pass"}
                   /\ ttl[k] \notin closed']_vars

\* C4's case: an Unregister has just returned an error and the instance's
\* goroutine, still in the map, is calling PassTTL.
C4_Witness ==
    /\ last.op = "Unregister" /\ last.err
    /\ last.key \in DOMAIN ttl
    /\ taskPc[ttl[last.key]] = "pass"
    /\ ttl[last.key] \notin closed

\* C5: when ServiceDeregister succeeded and the instance has no heartbeat
\* task, Unregister's lookup step returns nil and leaves csd.ttl, the stop
\* channels and every goroutine as they were.
C5_UnregisterWithoutTaskIsNoop ==
    [][\A c \in Callers, k \in Keys :
          (/\ pc[c] = "unreg_lookup" /\ inst[c] = k
           /\ pc'[c] # "unreg_lookup" /\ panic' = "none"
           /\ ActiveTasks(k) = {}) =>
             /\ pc'[c] = "idle"
             /\ last' = [op |-> "Unregister", key |-> k, err |-> FALSE,
                         chan |-> 0]
             /\ UNCHANGED <<ttl, ttlNil, closed, taskPc, checkID>>]_vars

\* C5's case: an Unregister of a never registered instance has returned nil
\* while another instance's heartbeat is running with its entry in the map.
C5_Witness ==
    /\ last.op = "Unregister" /\ ~last.err
    /\ last.key \notin everReg
    /\ \E k \in DOMAIN ttl : k # last.key /\ ttl[k] \in ActiveTasks(k)

\* C6: Update of a never registered instance returns ServiceRegister's
\* result whatever ServiceDeregister answered, and when it returns nil the
\* instance has one backend record and exactly one active heartbeat task.
C6_UpdateLeavesOneActiveRegistration ==
    [][\A c \in Callers, k \in Keys :
          (/\ pc[c] = "upd_register" /\ inst[c] = k
           /\ pc'[c] = "idle" /\ panic' = "none"
           /\ k \notin everReg) =>
             /\ last'.op = "Update" /\ last'.key = k
             /\ last'.err <=> k \notin backend'
             /\ ~last'.err => Cardinality(ActiveTasks(k)') = 1]_vars

\* C7: once Destroy has returned, every goroutine that has not returned has
\* its stop channel closed.
C7_DestroySignalsEveryTask ==
    (Alive /\ Quiet /\ last.op = "Destroy") =>
        \A t \in Chans : Running(t) => t \in closed

\* C8: a goroutine returns only from its select and only when its stop
\* channel is closed, a stop channel is closed only by Unregister or
\* Destroy, PassTTL always goes back to the select, and a goroutine whose
\* PassTTL failed is still running unless its stop channel was closed.
C8_StopsOnlyOnSignal ==
    [][\A t \in Chans :
          /\ (taskPc[t] # "stopped" /\ taskPc'[t] = "stopped") =>
                (t \in closed /\ taskPc[t] = "select")
          /\ (taskPc[t] = "pass" /\ taskPc'[t] # "pass") =>
                taskPc'[t] = "select"
          /\ (t \in closed' \ closed) =>
                \E c \in Callers : pc[c] \in {"unreg_close", "destroy_range"}
          /\ (failedPass' = t /\ t \notin closed') =>
                taskPc'[t] \in {"select", "pass"}]_vars

\* C8's case: a goroutine whose last PassTTL failed is calling PassTTL again.
C8_Witness ==
    \E t \in Chans : failedPass = t /\ taskPc[t] = "pass" /\ t \notin closed

\* C9: a goroutine at its select whose stop channel is closed does not take
\* the timer case, the case that calls PassTTL.
C9_NoPassAfterSignal ==
    [][\A t \in Chans :
          (t \in closed /\ taskPc[t] = "select") => taskPc'[t] # "pass"]_vars

\* C10: no two callers are inside statements that access csd.ttl at the
\* same time.
C10_MapAccessMutuallyExclusive ==
    \A c, d \in Callers : c # d => ~(InMap(c) /\ InMap(d))

\* The adapters constructed for name n.
AdaptersOf(n) == {a \in 1..Len(made) : made[a] = n}

\* C11: at most one adapter is ever constructed for a valid configuration
\* name, and all calls that returned an adapter for the same name returned
\* the same adapter.
C11_OneAdapterPerName ==
    /\ \A n \in ValidNames : Cardinality(AdaptersOf(n)) <= 1
    /\ \A c, d \in Callers :
          (fret[c].name = fret[d].name /\ fret[c].adapter # 0
              /\ fret[d].adapter # 0) =>
                 fret[c].adapter = fret[d].adapter

\* C17: no two PassTTL calls for the same check id (instance key) are in
\* flight at the same time.
C17_PassesNeverOverlap ==
    \A t, u \in Chans :
        (t # u /\ taskPc[t] = "pass" /\ taskPc[u] = "pass") =>
            checkID[t] # checkID[u]

\* C18: whenever no method is running, an instance key has at most one
\* running goroutine with an open stop channel, and the stop channel of
\* every such goroutine is the one csd.ttl holds under its key.
C18_EveryTaskIsInTheMap ==
    (Alive /\ Quiet) =>
        \A k \in Keys :
            /\ Cardinality(ActiveTasks(k)) <= 1
            /\ \A t \in ActiveTasks(k) :
                  ~ttlNil /\ k \in DOMAIN ttl /\ ttl[k] = t

\* C19: no stop channel that is already closed is closed again.
C19_StopChannelClosedOnce ==
    panic # "close of closed channel"

Min(a, b) == IF a < b THEN a ELSE b
Max(a, b) == IF a < b THEN b ELSE a

\* The list the last paging query got from GetInstances.
Source == GetInstances(serviceName, serviceName \in page.failed)

\* C13: for offset >= 0 and pageSize >= 0, GetInstancesByPage over a source
\* list of n instances returns the instances at indices
\* offset .. min(offset+pageSize, n)-1 in source order (none when
\* offset >= n) and totalCount n.
C13_PageIsTheSlice ==
    (page.op = "GetInstancesByPage" /\ offset >= 0 /\ pageSize >= 0) =>
        /\ panic = "none"
        /\ page.pager.total = Len(Source)
        /\ page.pager.items =
              SubSeq(Source, offset + 1, Min(offset + pageSize, Len(Source)))

\* Over 5 instances, offset 4 and pageSize 2 gave the one last instance.
C13_Witness ==
    /\ page.op = "GetInstancesByPage"
    /\ Len(Source) = MaxLen
    /\ offset = MaxLen - 1
    /\ pageSize = 2
    /\ page.pager.items = <<Source[MaxLen]>>

\* The instances at index >= off of all whose healthy status is flag.
Matching(all, off, flag) ==
    SelectSeq(SubSeq(all, Max(off, 0) + 1, Len(all)),
              LAMBDA x : x.Healthy = flag)

\* The pager of GetHealthyInstancesByPage is the first pageSize matching
\* instances at index >= offset and the unfiltered length.
HealthyPageIsRight ==
    /\ panic = "none"
    /\ page.pager.total = Len(Source)
    /\ page.pager.items =
          SubSeq(Matching(Source, offset, healthy), 1,
                 Min(Max(pageSize, 0),
                     Len(Matching(Source, offset, healthy))))

\* C14 as stated: for every source list, offset, pageSize and healthy flag,
\* GetHealthyInstancesByPage returns, in source order, the first pageSize
\* entries at index >= offset whose status equals the flag, and totalCount =
\* the unfiltered length.
C14_HealthyPageForEveryArgument ==
    page.op = "GetHealthyInstancesByPage" => HealthyPageIsRight

\* C14 amended: the same for every source list, every offset >= 0, every
\* pageSize >= 0 and every healthy flag.
C14_HealthyPageForValidArguments ==
    (page.op = "GetHealthyInstancesByPage" /\ offset >= 0 /\ pageSize >= 0)
        => HealthyPageIsRight

\* Over [healthy, unhealthy, healthy, healthy], offset 0, pageSize 2 and
\* healthy = true gave source positions 0 and 2 and totalCount 4.
C14_Witness ==
    /\ page.op = "GetHealthyInstancesByPage"
    /\ entries = <<"passing", "critical", "passing", "passing">>
    /\ page.failed = {}
    /\ offset = 0 /\ pageSize = 2 /\ healthy
    /\ page.pager.items = <<Source[1], Source[3]>>
    /\ page.pager.total = 4

\* The result q of a query holds nothing for the listing calls that failed.
EmptyWhereFailed(q) ==
    /\ q.services = {}
    /\ q.instances = << >>
    /\ q.pager = NoPager
    /\ \A n \in q.failed \cap DOMAIN q.pagers : q.pagers[n] = NoPager

\* A query whose listing call failed returned nothing, did not panic, and
\* left csd.ttl, the stop channels and the heartbeat goroutines as they were.
FailedReadIsHarmless ==
    /\ panic' = "none"
    /\ EmptyWhereFailed(page')
    /\ UNCHANGED <<ttl, ttlNil, closed, taskPc, checkID>>

\* C15 as stated: whenever the backend listing call of a query method
\* fails, the method returns an empty result (an empty set, an empty
\* sequence, pages with no items and totalCount 0) and the heartbeat-signal
\* map and the heartbeat tasks are unchanged.
C15_FailedReadForEveryArgument ==
    [][(page' # page /\ page'.failed # {} /\ QueryNext)
          => FailedReadIsHarmless]_vars

\* C15 amended: the same for queries whose offset and pageSize are >= 0.
C15_FailedReadForValidArguments ==
    [][(page' # page /\ page'.failed # {} /\ offset >= 0 /\ pageSize >= 0
           /\ QueryNext)
          => FailedReadIsHarmless]_vars

\* A paging query failed at the backend while an instance was registered,
\* in the map and being renewed.
C15_Witness ==
    /\ page.op = "GetInstancesByPage"
    /\ page.failed # {}
    /\ offset >= 0 /\ pageSize > 0
    /\ panic = "none"
    /\ \E k \in DOMAIN ttl : taskPc[ttl[k]] = "pass"

\* C12: an instance that was encoded by buildRegisterInstance and decoded
\* from the resulting backend entry has the id, serviceName, host, port and
\* enable of the instance that was encoded.
C12_RoundTripKeepsFiveFields ==
    decoded # << >> =>
        /\ decoded[1].Id = instance.Id
        /\ decoded[1].ServiceName = instance.ServiceName
        /\ decoded[1].Host = instance.Host
        /\ decoded[1].Port = instance.Port
        /\ decoded[1].Enable = instance.Enable

\* The number a decimal string denotes.
DigitValue(ch) == CHOOSE d \in 0..(Len(Digits) - 1) : Digits[d + 1] = ch
RECURSIVE Atoi(_)
Atoi(str) ==
    IF str = << >>
    THEN 0
    ELSE Atoi(SubSeq(str, 1, Len(str) - 1)) * Len(Digits)
           + DigitValue(str[Len(str)])

\* The milliseconds a TTL of the form "<n>s" denotes.
TtlMs(str) == Atoi(SubSeq(str, 1, Len(str) - 1)) * MsPerSecond

\* C20: for every positive check-pass interval T, the heartbeat period
\* T/8 ms is strictly positive and at most half of the TTL registered with
\* the backend, T/1000 s.
C20_PeriodWithinHalfTtl ==
    (registration # << >> /\ period # << >>) =>
        /\ period[1] > 0
        /\ 2 * period[1] <= TtlMs(registration[1].Check.TTL)

\* The event e is for the listener's service and carries one instance per
\* entry of es, in order.
EventCarries(e, es) ==
    /\ e.serviceName = listenerName
    /\ Len(e.instances) = Len(es)
    /\ \A i \in 1..Len(es) :
          /\ e.instances[i].Id = es[i].ID
          /\ e.instances[i].ServiceName = es[i].Service
          /\ e.instances[i].Healthy = (es[i].Status = "passing")

\* C16: a delivery whose payload has not the expected shape dispatches no
\* event and leaves the watch running, and every well-formed delivery after
\* it dispatches exactly one event, for the listener's service name, with
\* one instance per reported entry in order.
C16_MalformedPayloadKeepsWatch ==
    [][/\ HandlerMalformed => (events' = events /\ plan' = "running")
       /\ \A es \in Payloads(listenerName) :
             (HandlerEntries(es) /\ \E i \in DOMAIN history : history[i] = "bad")
                => /\ Len(events') = Len(events) + 1
                   /\ SubSeq(events', 1, Len(events)) = events
                   /\ EventCarries(events'[Len(events')], es)
                   /\ plan' = "running"]_vars

\* A malformed payload was delivered and a later payload of two entries was
\* dispatched as one event.
C16_Witness ==
    /\ \E i, j \in DOMAIN history :
          i < j /\ history[i] = "bad" /\ history[j] = "ok"
              /\ j = Len(history)
    /\ events # << >>
    /\ Len(events[Len(events)].instances) = MaxEntries
    /\ handlerErr

=============================================================================
